---- MODULE Spec2Model ----
(***************************************************************************)
(* A model of diffcode.py: the parser of the output of `diff -r -u`        *)
(* (getDifferences, insertedEntireFile) and the two-pass page layout of    *)
(* main.  Text is modelled as sequences of characters, a character being   *)
(* a one-character string ("NUL" stands for the character U+0000).         *)
(***************************************************************************)
EXTENDS Integers, Sequences, FiniteSets, TLC

VARIABLES
    dir1, dir2,         \* the two root paths (args.path1, args.path2)
    o,                  \* the lines of diff's output
    i,                  \* getDifferences: index of the current line (0-based)
    changeset,          \* getDifferences: file name -> sequence of ChangeInfo
    bound,              \* getDifferences: the local variables bound so far
    fname, fname1, fname2,
    lineNum1, lineNum2,
    pc,                 \* "parse", "returned" or "aborted" (an exception)
    pageHeight,         \* main: args.h in points
    ignoreBlankLines,   \* main: args.ignore_blank_lines, "yes" or "no"
    showContainingFunction,
    changesToIgnoreByFilename,  \* main: base name -> line numbers (--discard)
    pass,               \* main: the pass of the two-pass loop, 0 or 1
    lpc,                \* main: "idle", "pass", "file", "change", "save", "done"
                        \*       or "crashed" (an exception)
    fileI,              \* main: index into sorted(changeset.keys()), 0-based
    changeI,            \* main: index i into the changes of the current file
    firstChunk,
    Y, pageIsOpen, pageNum, numPages, numLineNumberDigits,
    pages,              \* the number of pages shown on the canvas cvs so far
    log,                \* the canvas calls of the last step
    pass1Pages,         \* numPages - 1 when pass 1 ended (0 before)
    gcfData, gcfLine,   \* getContainingFunction: the file's text, lineNumber
    gcfLabel,           \* getContainingFunction: the label returned
    gcfPc               \* getContainingFunction: "idle", "call" or "done"

pvars == <<dir1, dir2, o, i, changeset, bound, fname, fname1, fname2,
           lineNum1, lineNum2, pc>>

cfgvars == <<pageHeight, ignoreBlankLines, showContainingFunction,
             changesToIgnoreByFilename>>

lvars == <<pass, lpc, fileI, changeI, firstChunk, Y, pageIsOpen, pageNum, numPages,
           numLineNumberDigits, pages, log, pass1Pages>>

gvars == <<gcfData, gcfLine, gcfLabel, gcfPc>>

(***************************************************************************)
(* Python's str operations, on sequences of characters.                    *)
(***************************************************************************)
Whitespace == {" ", "\t", "\n", "\r"}

Digits == <<"0", "1", "2", "3", "4", "5", "6", "7", "8", "9">>

DigitSet == {Digits[k] : k \in 1..10}

\* the characters c with c.isascii() and c.isprintable()
Printable ==
    DigitSet \cup {" ", "-", "+", "@", ",", "/", ".", ":", "\\"}
      \cup {"a", "b", "c", "d", "e", "f", "g", "h", "i", "j", "k", "l", "m",
            "n", "o", "p", "q", "r", "s", "t", "u", "v", "w", "x", "y", "z"}
      \cup {"B", "N", "O", "T"}

\* s.startswith(p)
StartsWith(s, p) == Len(s) >= Len(p) /\ SubSeq(s, 1, Len(p)) = p

\* s.endswith(p)
EndsWith(s, p) == Len(s) >= Len(p) /\ SubSeq(s, Len(s) - Len(p) + 1, Len(s)) = p

\* s[k:]
From(s, k) == SubSeq(s, k + 1, Len(s))

\* s[:k]
UpTo(s, k) == SubSeq(s, 1, IF k < Len(s) THEN k ELSE Len(s))

RECURSIVE rstrip(_)
rstrip(s) ==
    IF s # <<>> /\ s[Len(s)] \in Whitespace THEN rstrip(SubSeq(s, 1, Len(s) - 1)) ELSE s

RECURSIVE lstrip(_)
lstrip(s) == IF s # <<>> /\ s[1] \in Whitespace THEN lstrip(Tail(s)) ELSE s

strip(s) == lstrip(rstrip(s))

\* s.find(c) for a single character c, 1-based; 0 when c is not in s
RECURSIVE Find(_, _)
Find(s, c) ==
    IF s = <<>> THEN 0
    ELSE IF s[1] = c THEN 1
    ELSE LET k == Find(Tail(s), c) IN IF k = 0 THEN 0 ELSE k + 1

\* s.split(c) for a single character c
RECURSIVE Split(_, _)
Split(s, c) ==
    LET k == Find(s, c)
    IN IF k = 0 THEN <<s>>
       ELSE <<SubSeq(s, 1, k - 1)>> \o Split(From(s, k), c)

\* s.split(): the maximal runs of non-whitespace characters
RECURSIVE SplitWords(_)
SplitWords(s) ==
    LET t == lstrip(s)
        RECURSIVE WordEnd(_)
        WordEnd(k) == IF k < Len(t) /\ t[k + 1] \notin Whitespace THEN WordEnd(k + 1) ELSE k
    IN IF t = <<>> THEN <<>>
       ELSE LET e == WordEnd(1) IN <<SubSeq(t, 1, e)>> \o SplitWords(From(t, e))

\* the value of a string of decimal digits
RECURSIVE DigitsValue(_)
DigitsValue(s) ==
    IF s = <<>> THEN 0
    ELSE 10 * DigitsValue(SubSeq(s, 1, Len(s) - 1))
           + (CHOOSE d \in 0..9 : Digits[d + 1] = s[Len(s)])

IsDigits(s) == s # <<>> /\ \A k \in 1..Len(s) : s[k] \in DigitSet

\* int(s) succeeds (no ValueError)
IsInt(s) ==
    LET t == strip(s)
    IN IF t # <<>> /\ t[1] \in {"+", "-"} THEN IsDigits(Tail(t)) ELSE IsDigits(t)

\* int(s)
ToInt(s) ==
    LET t == strip(s)
    IN IF t[1] = "-" THEN 0 - DigitsValue(Tail(t))
       ELSE IF t[1] = "+" THEN DigitsValue(Tail(t))
       ELSE DigitsValue(t)

\* os.path.join(a, b)
PathJoin(a, b) ==
    IF b # <<>> /\ b[1] = "/" THEN b
    ELSE IF a = <<>> \/ a[Len(a)] = "/" THEN a \o b
    ELSE a \o <<"/">> \o b

\* os.path.basename(p)
RECURSIVE Basename(_)
Basename(p) ==
    LET k == Find(p, "/") IN IF k = 0 THEN p ELSE Basename(From(p, k))

(***************************************************************************)
(* The files under the two roots that the parser may read.  A path is      *)
(* looked up by its last component: s is a directory holding the files t   *)
(* and z, every other name is a regular file (empty unless listed).        *)
(***************************************************************************)
\* os.path.isdir(path)
IsDir(path) == Basename(path) = <<"s">>

\* the files os.walk(path) lists for the directory path
DirFiles(path) == << <<"t">>, <<"z">> >>

\* fp.read() of open(path, errors="replace")
FileData(path) ==
    LET b == Basename(path)
    IN IF b = <<"t">> THEN <<"a", "b", "\n", "c", "d", "\n">>
       ELSE IF b = <<"u">> THEN <<"a", "b", "\n", "c">>
       ELSE IF b = <<"h">> THEN <<"a", "\n">>
       ELSE IF b = <<"w">> THEN <<"a", "b", "c", "d", "\n", "e", "f">>
       ELSE IF b = <<"z">> THEN <<"NUL", "NUL", "a">>
       ELSE <<>>

(***************************************************************************)
(* ChangeInfo and insertedEntireFile.                                      *)
(***************************************************************************)
ChangeInfo(type, line1, line2, content) ==
    [type |-> type, line1 |-> line1, line2 |-> line2, content |-> content]

BinarySentinel ==
    <<"T", "h", "i", "s", " ", "f", "i", "l", "e", " ", "c", "o", "n", "t", "a", "i",
      "n", "s", " ", "b", "i", "n", "a", "r", "y", " ", "d", "a", "t", "a">>

HeadLen == 100

\* the test that replaces the data of an added file by the sentinel
IsBinaryData(data) ==
    LET head == UpTo(data, HeadLen)
        numBin == Cardinality({k \in 1..Len(head) : head[k] \notin Printable})
        numAscii == Cardinality({k \in 1..Len(head) : head[k] \in Printable})
        totalChars == numBin + numAscii
    IN totalChars > 0 /\ 2 * numBin >= totalChars

\* the records insertedEntireFile appends for a regular file
AddedFileRecords(fn) ==
    LET raw == FileData(fn)
        data == IF IsBinaryData(raw) THEN BinarySentinel ELSE raw
        lines == Split(data, "\n")
    IN <<ChangeInfo("ADDED_FILE", 1, 1, fn)>>
         \o [idx \in 1..Len(lines) |-> ChangeInfo("INSERTED", 1, idx, lines[idx])]

\* insertedEntireFile(fn, cs): ok is FALSE when an assertion fails
RECURSIVE insertedEntireFile(_, _)
insertedEntireFile(fn, cs) ==
    IF IsDir(fn)
    THEN LET RECURSIVE Walk(_, _)
             Walk(k, acc) ==
                 IF k > Len(DirFiles(fn)) \/ ~acc.ok THEN acc
                 ELSE Walk(k + 1,
                           insertedEntireFile(PathJoin(fn, DirFiles(fn)[k]), acc.changeset))
         IN Walk(1, [ok |-> TRUE, changeset |-> cs])
    ELSE IF fn \in DOMAIN cs THEN [ok |-> FALSE, changeset |-> cs]
    ELSE [ok |-> TRUE, changeset |-> cs @@ (fn :> AddedFileRecords(fn))]

(***************************************************************************)
(* getDifferences: one operator per branch of the line dispatch, each on   *)
(* the record p of the function's local variables.                         *)
(***************************************************************************)
PState ==
    [dir1 |-> dir1, dir2 |-> dir2, o |-> o, i |-> i, changeset |-> changeset,
     bound |-> bound, fname |-> fname, fname1 |-> fname1, fname2 |-> fname2,
     lineNum1 |-> lineNum1, lineNum2 |-> lineNum2, pc |-> pc]

\* an exception leaves getDifferences: no changeset is returned
Abort(p) == [p EXCEPT !.pc = "aborted"]

\* the current line, o[i]
Line(p) == p.o[p.i + 1]

\* changeset[fname] can be evaluated: fname is bound and is a key
HasFile(p) == "fname" \in p.bound /\ p.fname \in DOMAIN p.changeset

\* changeset[fname].append(rec)
AppendChange(p, rec) ==
    [p.changeset EXCEPT ![p.fname] = Append(@, rec)]

\* onlyInRex: r"^Only in ([^:]+): (.+)"
OnlyInMatch(line) ==
    LET rest == From(line, 8)
        k == Find(rest, ":")
    IN IF StartsWith(line, <<"O", "n", "l", "y", " ", "i", "n", " ">>)
          /\ k >= 2 /\ Len(rest) >= k + 2 /\ rest[k + 1] = " "
       THEN [ok |-> TRUE, g1 |-> SubSeq(rest, 1, k - 1), g2 |-> From(rest, k + 1)]
       ELSE [ok |-> FALSE, g1 |-> <<>>, g2 |-> <<>>]

\* binaryRex: r"Binary files (.*) and (.*) differ", on a line that starts with
\* "Binary files " and ends with " differ"; g1 is greedy
BinaryMatch(line) ==
    LET mid == SubSeq(line, 14, Len(line) - 7)
        and == <<" ", "a", "n", "d", " ">>
        at == {k \in 1..Len(mid) : StartsWith(From(mid, k - 1), and)}
    IN IF Len(line) >= 25 /\ at # {}
       THEN [ok |-> TRUE,
             g1 |-> SubSeq(mid, 1, (CHOOSE k \in at : \A j \in at : j <= k) - 1)]
       ELSE [ok |-> FALSE, g1 |-> <<>>]

\* the start line of one side of an '@@' header: lines 860-866 and 867-873
ChunkStart(spec, sign) ==
    LET parts == Split(spec, ",")
        l == IF Find(spec, ",") # 0 THEN parts[1] ELSE spec
    IN IF Find(spec, ",") # 0 /\ Len(parts) # 2 THEN [ok |-> FALSE, n |-> 0]
       ELSE IF ~StartsWith(l, <<sign>>) \/ ~IsInt(Tail(l)) THEN [ok |-> FALSE, n |-> 0]
       ELSE [ok |-> TRUE, n |-> ToInt(Tail(l))]

\* a variant of ChunkStartOk that lets a start line of 0 through
ChunkStartOkFromZero(n) == n >= 0

\* assert lineNum1 > 0, assert lineNum2 > 0
ChunkStartOk(n) == n > 0

\* line.startswith("diff ")
DiffLine(p) == [p EXCEPT !.i = @ + 1]

\* line.startswith("Only in ")
OnlyInLine(p) ==
    LET M == OnlyInMatch(Line(p))
        fn == PathJoin(M.g1, M.g2)
        q == [p EXCEPT !.fname = fn, !.bound = @ \cup {"fname"}]
    IN IF ~M.ok THEN Abort(p)
       ELSE IF StartsWith(M.g1, p.dir2)
       THEN LET r == insertedEntireFile(fn, p.changeset)
            IN IF r.ok THEN [q EXCEPT !.changeset = r.changeset, !.i = @ + 1]
               ELSE Abort([q EXCEPT !.changeset = r.changeset])
       ELSE IF StartsWith(M.g1, p.dir1)
       THEN IF fn \in DOMAIN p.changeset THEN Abort(q)
            ELSE [q EXCEPT !.changeset =
                               @ @@ (fn :> <<ChangeInfo("REMOVED_FILE", -1, -1, fn)>>),
                           !.i = @ + 1]
       ELSE Abort(q)

\* a header branch without the assert: changeset[fname] = [] whatever it held
HeaderLineResets(p) ==
    LET f1 == Split(strip(From(Line(p), 4)), "\t")[1]
        q == [p EXCEPT !.fname1 = f1, !.bound = @ \cup {"fname1"}, !.i = @ + 1]
    IN IF q.i >= Len(q.o) THEN Abort(q)
       ELSE IF ~StartsWith(Line(q), <<"+", "+", "+">>) THEN Abort(q)
       ELSE LET f2 == Split(strip(From(Line(q), 4)), "\t")[1]
                r == [q EXCEPT !.fname2 = f2, !.fname = f2,
                               !.bound = @ \cup {"fname2", "fname"}, !.i = @ + 1]
            IN [r EXCEPT !.changeset =
                            [k \in (DOMAIN @) \cup {f2} |-> IF k = f2 THEN <<>> ELSE @[k]]]

\* line.startswith("---")
HeaderLine(p) ==
    LET f1 == Split(strip(From(Line(p), 4)), "\t")[1]
        q == [p EXCEPT !.fname1 = f1, !.bound = @ \cup {"fname1"}, !.i = @ + 1]
    IN IF q.i >= Len(q.o) THEN Abort(q)
       ELSE IF ~StartsWith(Line(q), <<"+", "+", "+">>) THEN Abort(q)
       ELSE LET f2 == Split(strip(From(Line(q), 4)), "\t")[1]
                r == [q EXCEPT !.fname2 = f2, !.fname = f2,
                               !.bound = @ \cup {"fname2", "fname"}, !.i = @ + 1]
            IN IF f2 \in DOMAIN r.changeset THEN Abort(r)
               ELSE [r EXCEPT !.changeset = @ @@ (f2 :> <<>>)]

\* line.startswith("@@ ")
ChunkLine(p) ==
    LET spec == SplitWords(strip(From(Line(p), 2)))
        q == [p EXCEPT !.i = @ + 1]
    IN IF Len(spec) < 1 THEN Abort(q)
       ELSE LET s1 == ChunkStart(spec[1], "-")
            IN IF ~s1.ok THEN Abort(q)
               ELSE LET q1 == [q EXCEPT !.lineNum1 = s1.n, !.bound = @ \cup {"lineNum1"}]
                    IN IF Len(spec) < 2 THEN Abort(q1)
                       ELSE LET s2 == ChunkStart(spec[2], "+")
                            IN IF ~s2.ok THEN Abort(q1)
                               ELSE LET q2 == [q1 EXCEPT !.lineNum2 = s2.n,
                                                         !.bound = @ \cup {"lineNum2"}]
                                    IN IF ~ChunkStartOk(s1.n) \/ ~ChunkStartOk(s2.n)
                                          \/ ~HasFile(q2)
                                          \/ ~({"fname1", "fname2"} \subseteq q2.bound)
                                       THEN Abort(q2)
                                       ELSE [q2 EXCEPT !.changeset =
                                               AppendChange(q2,
                                                 ChangeInfo("NEW_CHUNK", s1.n, s2.n,
                                                            <<q2.fname1, q2.fname2>>))]

\* the local variables a body line reads
BodyReady(p) == HasFile(p) /\ {"lineNum1", "lineNum2"} \subseteq p.bound

\* line.startswith(" ")
ContextLine(p) ==
    IF ~BodyReady(p) THEN Abort(p)
    ELSE [p EXCEPT !.changeset =
                       AppendChange(p, ChangeInfo("CONTEXT", p.lineNum1, p.lineNum2,
                                                  rstrip(From(Line(p), 1)))),
                   !.lineNum1 = @ + 1, !.lineNum2 = @ + 1, !.i = @ + 1]

\* a variant of DeletedLine that advances both counters
DeletedLineAdvancesBoth(p) ==
    IF ~BodyReady(p) THEN Abort(p)
    ELSE [p EXCEPT !.changeset =
                       AppendChange(p, ChangeInfo("DELETED", p.lineNum1, p.lineNum2,
                                                  rstrip(From(Line(p), 1)))),
                   !.lineNum1 = @ + 1, !.lineNum2 = @ + 1, !.i = @ + 1]

\* line.startswith("-")
DeletedLine(p) ==
    IF ~BodyReady(p) THEN Abort(p)
    ELSE [p EXCEPT !.changeset =
                       AppendChange(p, ChangeInfo("DELETED", p.lineNum1, p.lineNum2,
                                                  rstrip(From(Line(p), 1)))),
                   !.lineNum1 = @ + 1, !.i = @ + 1]

\* a variant of InsertedLine that records the counters after advancing
InsertedLineAdvancesFirst(p) ==
    IF ~BodyReady(p) THEN Abort(p)
    ELSE [p EXCEPT !.changeset =
                       AppendChange(p, ChangeInfo("INSERTED", p.lineNum1, p.lineNum2 + 1,
                                                  rstrip(From(Line(p), 1)))),
                   !.lineNum2 = @ + 1, !.i = @ + 1]

\* line.startswith("+")
InsertedLine(p) ==
    IF ~BodyReady(p) THEN Abort(p)
    ELSE [p EXCEPT !.changeset =
                       AppendChange(p, ChangeInfo("INSERTED", p.lineNum1, p.lineNum2,
                                                  rstrip(From(Line(p), 1)))),
                   !.lineNum2 = @ + 1, !.i = @ + 1]

\* line == "\\ No newline at end of file"
NoNewlineLine(p) == [p EXCEPT !.i = @ + 1]

\* line.startswith("Binary files ") and line.endswith(" differ")
BinaryLine(p) ==
    LET M == BinaryMatch(Line(p))
        q == [p EXCEPT !.fname = M.g1, !.bound = @ \cup {"fname"}]
    IN IF ~M.ok THEN Abort(p)
       ELSE IF M.g1 \in DOMAIN p.changeset THEN Abort(q)
       ELSE [q EXCEPT !.changeset =
                          [k \in (DOMAIN @) \cup {M.g1} |->
                              IF k = M.g1
                              THEN <<ChangeInfo("DIFFERING_BINARY", 0, 0, M.g1)>>
                              ELSE @[k]],
                      !.i = @ + 1]

\* an else branch that skips the line
UnknownLineSkipped(p) == [p EXCEPT !.i = @ + 1]

\* else: assert 0
UnknownLine(p) == Abort(p)

NoNewlineText ==
    <<"\\", " ", "N", "o", " ", "n", "e", "w", "l", "i", "n", "e", " ", "a", "t", " ",
      "e", "n", "d", " ", "o", "f", " ", "f", "i", "l", "e">>

\* the if/elif chain of the loop body: the branch that takes the line
Branch(line) ==
    IF StartsWith(line, <<"d", "i", "f", "f", " ">>) THEN "diff"
    ELSE IF StartsWith(line, <<"O", "n", "l", "y", " ", "i", "n", " ">>) THEN "onlyin"
    ELSE IF StartsWith(line, <<"-", "-", "-">>) THEN "header"
    ELSE IF StartsWith(line, <<"@", "@", " ">>) THEN "chunk"
    ELSE IF StartsWith(line, <<" ">>) THEN "context"
    ELSE IF StartsWith(line, <<"-">>) THEN "deleted"
    ELSE IF StartsWith(line, <<"+">>) THEN "inserted"
    ELSE IF line = NoNewlineText THEN "nonewline"
    ELSE IF StartsWith(line, <<"B", "i", "n", "a", "r", "y", " ", "f", "i", "l", "e", "s", " ">>)
            /\ EndsWith(line, <<" ", "d", "i", "f", "f", "e", "r">>) THEN "binary"
    ELSE "unknown"

\* the loop condition holds: a line is left
Parsing(p) == p.pc = "parse" /\ p.i < Len(p.o)

(***************************************************************************)
(* The output of `diff -r --unified=3 dir1 dir2` that the model feeds to   *)
(* the parser: lines that diff prints for the two roots.                   *)
(***************************************************************************)
MaxTop == 2

MaxBody == 4

\* the root pairs: disjoint names, and a second root that is a string
\* prefix of the first (such as proj.old and proj)
RootPairs == { << <<"a">>, <<"b">> >>, << <<"b", "2">>, <<"b">> >> }

LDiff(d1, d2) ==
    <<"d", "i", "f", "f", " ", "-", "r", " ">> \o d1 \o <<"/", "x", " ">> \o d2 \o <<"/", "x">>

LOnlyIn(d, name) == <<"O", "n", "l", "y", " ", "i", "n", " ">> \o d \o <<":", " ">> \o name

LBinary(d1, d2) ==
    <<"B", "i", "n", "a", "r", "y", " ", "f", "i", "l", "e", "s", " ">> \o d1 \o <<"/", "g">>
      \o <<" ", "a", "n", "d", " ">> \o d2 \o <<"/", "g">> \o <<" ", "d", "i", "f", "f", "e", "r">>

\* what diff prints for a name that is a directory under one root and a file
\* under the other
LFileType(d1, d2) ==
    <<"F", "i", "l", "e", " ">> \o d1 \o <<"/", "k">>
      \o <<" ", "i", "s", " ", "a", " ", "d", "i", "r", "e", "c", "t", "o", "r", "y", " ",
           "w", "h", "i", "l", "e", " ", "f", "i", "l", "e", " ">> \o d2 \o <<"/", "k">>
      \o <<" ", "i", "s", " ", "a", " ", "r", "e", "g", "u", "l", "a", "r", " ",
           "f", "i", "l", "e">>

LHeader1(d1, f) == <<"-", "-", "-", " ">> \o d1 \o <<"/">> \o f \o <<"\t", "0">>

LHeader2(d2, f) == <<"+", "+", "+", " ">> \o d2 \o <<"/">> \o f \o <<"\t", "0">>

\* '@@' headers: a hunk at line 1, a hunk whose left side is empty, a later hunk
ChunkLines ==
    { <<"@", "@", " ", "-", "1", ",", "2", " ", "+", "1", ",", "2", " ", "@", "@">>,
      <<"@", "@", " ", "-", "0", ",", "0", " ", "+", "1", " ", "@", "@">>,
      <<"@", "@", " ", "-", "3", " ", "+", "1", "2", ",", "2", " ", "@", "@">> }

\* hunk body lines; the deleted text "-- q" and the inserted text "++ r" give
\* lines that begin with "---" and "+++"
BodyLines ==
    { <<" ", "c", " ">>, <<"-", "o">>, <<"+", "n">>,
      <<"-", "-", "-", " ", "q">>, <<"+", "+", "+", " ", "r">>, NoNewlineText }

TopLines(d1, d2) ==
    { LDiff(d1, d2), LBinary(d1, d2), LFileType(d1, d2), LOnlyIn(d1, <<"t">>) }
      \cup { LOnlyIn(d2, <<n>>) : n \in {"t", "u", "e", "h", "z", "s"} }

\* the sequences over S of length at most n
RECURSIVE SeqsUpTo(_, _)
SeqsUpTo(S, n) ==
    IF n = 0 THEN { <<>> }
    ELSE LET shorter == SeqsUpTo(S, n - 1)
         IN shorter \cup { Append(q, x) : q \in shorter, x \in S }

\* the hunks of one file: each '@@' header is followed by a body line
HunkLines ==
    { h \in SeqsUpTo(BodyLines \cup ChunkLines, MaxBody) :
        /\ h # <<>>
        /\ h[1] \in ChunkLines
        /\ \A k \in 1..Len(h) :
             h[k] \in ChunkLines => (k < Len(h) /\ h[k + 1] \in BodyLines) }

\* the concrete scenario: the diff of a/x.txt and b/x.txt
ScenarioInput ==
    << <<"-", "-", "-", " ", "a", "/", "x", ".", "t", "x", "t">>,
       <<"+", "+", "+", " ", "b", "/", "x", ".", "t", "x", "t">>,
       <<"@", "@", " ", "-", "1", ",", "2", " ", "+", "1", ",", "2", " ", "@", "@">>,
       <<"-", "o", "l", "d">>,
       <<"+", "n", "e", "w">>,
       <<" ", "c", "o", "n", "t", "e", "x", "t">> >>

\* the diff of a/x and b/x where two hunks each delete the text "-- q" and
\* insert the text "++ r"
RepeatedInput ==
    << LHeader1(<<"a">>, <<"x">>), LHeader2(<<"b">>, <<"x">>),
       <<"@", "@", " ", "-", "1", ",", "2", " ", "+", "1", ",", "2", " ", "@", "@">>,
       <<"-", "-", "-", " ", "q">>, <<"+", "+", "+", " ", "r">>,
       <<"@", "@", " ", "-", "3", " ", "+", "1", "2", ",", "2", " ", "@", "@">>,
       <<"-", "o">>,
       <<"-", "-", "-", " ", "q">>, <<"+", "+", "+", " ", "r">> >>

Inputs(d1, d2) ==
    SeqsUpTo(TopLines(d1, d2), MaxTop)
      \cup { pre \o <<LHeader1(d1, <<"x">>), LHeader2(d2, <<"x">>)>> \o h :
               pre \in { <<>>, <<LDiff(d1, d2)>> }, h \in HunkLines }
      \cup (IF d1 = <<"a">> THEN { ScenarioInput, RepeatedInput } ELSE {})

(***************************************************************************)
(* The parser as a state machine: one step per iteration of the loop of    *)
(* getDifferences.                                                         *)
(***************************************************************************)
Apply(q) ==
    /\ i' = q.i
    /\ changeset' = q.changeset
    /\ bound' = q.bound
    /\ fname' = q.fname
    /\ fname1' = q.fname1
    /\ fname2' = q.fname2
    /\ lineNum1' = q.lineNum1
    /\ lineNum2' = q.lineNum2
    /\ pc' = q.pc
    /\ UNCHANGED <<dir1, dir2, o>>
    /\ UNCHANGED <<cfgvars, lvars, gvars>>

ParseInit ==
    /\ \E r \in RootPairs : dir1 = r[1] /\ dir2 = r[2] /\ o \in Inputs(r[1], r[2])
    /\ i = 0
    /\ changeset = [k \in {} |-> <<>>]
    /\ bound = {}
    /\ fname = <<>>
    /\ fname1 = <<>>
    /\ fname2 = <<>>
    /\ lineNum1 = 0
    /\ lineNum2 = 0
    /\ pc = "parse"

Taken(b) == Parsing(PState) /\ Branch(Line(PState)) = b

StepDiff == Taken("diff") /\ Apply(DiffLine(PState))

StepOnlyIn == Taken("onlyin") /\ Apply(OnlyInLine(PState))

StepHeader == Taken("header") /\ Apply(HeaderLine(PState))

StepChunk == Taken("chunk") /\ Apply(ChunkLine(PState))

StepContext == Taken("context") /\ Apply(ContextLine(PState))

StepDeleted == Taken("deleted") /\ Apply(DeletedLine(PState))

StepInserted == Taken("inserted") /\ Apply(InsertedLine(PState))

StepNoNewline == Taken("nonewline") /\ Apply(NoNewlineLine(PState))

StepBinary == Taken("binary") /\ Apply(BinaryLine(PState))

StepUnknown == Taken("unknown") /\ Apply(UnknownLine(PState))

\* the loop ends: return changeset
Return ==
    /\ pc = "parse"
    /\ i >= Len(o)
    /\ pc' = "returned"
    /\ UNCHANGED <<dir1, dir2, o, i, changeset, bound, fname, fname1, fname2,
                   lineNum1, lineNum2>>
    /\ UNCHANGED <<cfgvars, lvars, gvars>>

ParseNext ==
    \/ StepDiff
    \/ StepOnlyIn
    \/ StepHeader
    \/ StepChunk
    \/ StepContext
    \/ StepDeleted
    \/ StepInserted
    \/ StepNoNewline
    \/ StepBinary
    \/ StepUnknown
    \/ Return

(***************************************************************************)
(* getDifferences as a function of diff's output, for the layout.          *)
(***************************************************************************)
\* one iteration of the loop of getDifferences
ParseStep(p) ==
    LET b == Branch(Line(p))
    IN IF b = "diff" THEN DiffLine(p)
       ELSE IF b = "onlyin" THEN OnlyInLine(p)
       ELSE IF b = "header" THEN HeaderLine(p)
       ELSE IF b = "chunk" THEN ChunkLine(p)
       ELSE IF b = "context" THEN ContextLine(p)
       ELSE IF b = "deleted" THEN DeletedLine(p)
       ELSE IF b = "inserted" THEN InsertedLine(p)
       ELSE IF b = "nonewline" THEN NoNewlineLine(p)
       ELSE IF b = "binary" THEN BinaryLine(p)
       ELSE UnknownLine(p)

RECURSIVE ParseLoop(_)
ParseLoop(p) ==
    IF Parsing(p) THEN ParseLoop(ParseStep(p))
    ELSE IF p.pc = "parse" THEN [p EXCEPT !.pc = "returned"]
    ELSE p

\* the local variables of getDifferences(d1, d2) when it ends, out being the
\* lines diff printed
getDifferences(d1, d2, out) ==
    ParseLoop([dir1 |-> d1, dir2 |-> d2, o |-> out, i |-> 0,
               changeset |-> [k \in {} |-> <<>>], bound |-> {},
               fname |-> <<>>, fname1 |-> <<>>, fname2 |-> <<>>,
               lineNum1 |-> 0, lineNum2 |-> 0, pc |-> "parse"])

(***************************************************************************)
(* Python's ordering of strings, sorted() and fnmatch.                     *)
(***************************************************************************)
\* the characters of the model in code point order
CodeOrder ==
    <<"NUL", "\t", "\n", "\r", " ", "*", "+", ",", "-", ".", "/",
      "0", "1", "2", "3", "4", "5", "6", "7", "8", "9", ":", "?", "@",
      "B", "F", "K", "N", "O", "T", "\\",
      "a", "b", "c", "d", "e", "f", "g", "h", "i", "j", "k", "l", "m",
      "n", "o", "p", "q", "r", "s", "t", "u", "v", "w", "x", "y", "z">>

Code(c) == CHOOSE k \in 1..Len(CodeOrder) : CodeOrder[k] = c

\* a < b for two strings
RECURSIVE StrLess(_, _)
StrLess(a, b) ==
    IF b = <<>> THEN FALSE
    ELSE IF a = <<>> THEN TRUE
    ELSE IF a[1] # b[1] THEN Code(a[1]) < Code(b[1])
    ELSE StrLess(Tail(a), Tail(b))

\* sorted(S) for a set of strings
RECURSIVE Sorted(_)
Sorted(S) ==
    IF S = {} THEN <<>>
    ELSE LET m == CHOOSE x \in S : \A y \in S \ {x} : StrLess(x, y)
         IN <<m>> \o Sorted(S \ {m})

\* fnmatch.fnmatch(name, pat) for patterns of literal characters, * and ?
RECURSIVE fnmatch(_, _)
fnmatch(name, pat) ==
    IF pat = <<>> THEN name = <<>>
    ELSE IF pat[1] = "*"
    THEN fnmatch(name, Tail(pat)) \/ (name # <<>> /\ fnmatch(Tail(name), pat))
    ELSE /\ name # <<>>
         /\ (pat[1] = "?" \/ pat[1] = name[1])
         /\ fnmatch(Tail(name), Tail(pat))

(***************************************************************************)
(* main: the page geometry, in points: a small page for a configuration   *)
(* given with --font-size, -w, -h and the margin options.  The font is     *)
(* Courier, whose characters all have the same width.                      *)
(***************************************************************************)
fontSize == 4

SPACE == 2

contentMarginBottom == 4

leftMargin == 1

rightMargin == 1

pageWidth == 9

PageHeights == {32, 36}

charWidth(c) == 1

\* the ignore globs when --ignore is not given
ignoreGlobs ==
    << <<"*", ".", "a", "s", "s", "e", "t", "s", ".", "j", "s", "o", "n">>,
       <<"*", ".", "n", "u", "g", "e", "t", ".", "*">>,
       <<"*", ".", "c", "a", "c", "h", "e">>,
       <<"*", ".", "c", "s", "p", "r", "o", "j", ".", "*">>,
       <<"*", ".", "e", "d", "i", "t", "o", "r", "c", "o", "n", "f", "i", "g">>,
       <<"*", ".", "e", "x", "e">>,
       <<"*", ".", "d", "l", "l">>,
       <<"*", ".", "s", "o">>,
       <<"*", ".", "o">>,
       <<"*", ".", "p", "d", "b">> >>

\* the number of decimal digits of n >= 1: 1 + int(math.log10(n))
RECURSIVE NumDigits(_)
NumDigits(n) == IF n < 10 THEN 1 ELSE 1 + NumDigits(n \div 10)

Max(S) == CHOOSE x \in S : \A y \in S : y <= x

(***************************************************************************)
(* getContainingFunction.  A source file is given by its lines, each named *)
(* by what classrex and funcrex find in it, and by whether it ends with a  *)
(* newline.  A line is blank (white space only), plain (no match), a class *)
(* header of K or L, a function header of f or g, or an `if (...) {`.      *)
(* b/x has 13 lines, a class K on line 1, a function f on line 2 and an    *)
(* `if (...) {` on line 11; b/y has 12 plain lines and does not end with a *)
(* newline; b/z has 10 plain lines.                                        *)
(***************************************************************************)
LineKinds == {"blank", "plain", "class K", "class L", "f()", "g()", "if()"}

SourceExists(path) == Basename(path) \in {<<"x">>, <<"y">>, <<"z">>}

\* fp.read()
SourceData(path) ==
    IF Basename(path) = <<"x">>
    THEN [lines |-> [n \in 1..13 |-> IF n = 1 THEN "class K" ELSE IF n = 2 THEN "f()"
                                     ELSE IF n = 11 THEN "if()" ELSE "plain"],
          nl |-> TRUE]
    ELSE IF Basename(path) = <<"y">>
    THEN [lines |-> [n \in 1..12 |-> "plain"], nl |-> FALSE]
    ELSE [lines |-> [n \in 1..10 |-> "plain"], nl |-> TRUE]

\* the line on which a match at the start of line n begins: the patterns
\* start with \s*, which runs over blank lines; 0 when only white space is left
RECURSIVE MatchLine(_, _)
MatchLine(data, n) ==
    IF n > Len(data.lines) THEN 0
    ELSE IF data.lines[n] = "blank" THEN MatchLine(data, n + 1)
    ELSE n

\* M.group(2) of classrex.match at the start of line n, "" when there is no match
ClassAt(data, n) ==
    LET m == MatchLine(data, n)
    IN IF m = 0 THEN ""
       ELSE IF data.lines[m] = "class K" THEN "K"
       ELSE IF data.lines[m] = "class L" THEN "L"
       ELSE ""

\* M.group(2) of funcrex.match at the start of line n, "" when there is no match
FuncAt(data, n) ==
    LET m == MatchLine(data, n)
    IN IF m = 0 THEN ""
       ELSE IF data.lines[m] = "f()" THEN "f"
       ELSE IF data.lines[m] = "g()" THEN "g"
       ELSE IF data.lines[m] = "if()" THEN "if"
       ELSE ""

\* checkClass and checkFunc at the start of line n
CheckLine(data, n, kf) ==
    LET k == ClassAt(data, n)
        w == FuncAt(data, n)
    IN [klass |-> IF k # "" THEN k ELSE kf.klass,
        func |-> IF w # "" /\ w \notin {"if", "while", "for", "foreach", "switch"}
                 THEN w ELSE kf.func]

\* a last line without newline that is scanned like the others
LastLineUnterminatedNever(data, lineNum) == FALSE

\* data.find("\n", idx) == -1 on line lineNum
LastLineUnterminated(data, lineNum) == lineNum = Len(data.lines) /\ ~data.nl

\* the label returned for the text data of the file; <<>> is None
ContainingFunction(data, lineNumber) ==
    LET n == Len(data.lines)
        none == [klass |-> "", func |-> ""]
        first == IF n = 0 \/ 1 >= lineNumber THEN CheckLine(data, 1, none) ELSE none
        RECURSIVE Scan(_, _)
        Scan(lineNum, kf) ==
            IF lineNum <= n /\ lineNum < lineNumber
            THEN IF LastLineUnterminated(data, lineNum)
                 THEN [klass |-> "[not in a function]", func |-> ""]
                 ELSE Scan(lineNum + 1, CheckLine(data, lineNum, kf))
            ELSE kf
        kf == Scan(1, first)
    IN IF kf.klass = "[not in a function]" THEN <<"[not in a function]">>
       ELSE IF kf.klass # "" /\ kf.func # ""
       THEN <<"class", kf.klass, ",", "function", kf.func>>
       ELSE IF kf.klass # "" THEN <<"class", kf.klass>>
       ELSE IF kf.func # "" THEN <<"function", kf.func>>
       ELSE <<>>

\* getContainingFunction(filename, lineNumber)
getContainingFunction(filename, lineNumber) ==
    ContainingFunction(SourceData(filename), lineNumber)

(***************************************************************************)
(* main: the page cursor and the drawing functions.  A cursor c holds Y,   *)
(* pageIsOpen, pageNum, numPages, the canvas page count and the canvas     *)
(* calls made.                                                             *)
(***************************************************************************)
Cursor ==
    [Y |-> Y, pageIsOpen |-> pageIsOpen, pageNum |-> pageNum, numPages |-> numPages,
     pages |-> pages, log |-> <<>>]

\* a canvas call: the page of the canvas it lands on and where
Draw(c, op, x, y, arg) ==
    [c EXCEPT !.log = Append(@, [op |-> op, page |-> c.pages + 1, open |-> c.pageIsOpen,
                                 x |-> x, y |-> y, arg |-> arg])]

\* a preparePage that leaves pageNum and numPages alone
preparePageKeepsCount(c) ==
    IF c.pageIsOpen THEN c
    ELSE LET h == Draw(c, "header", leftMargin, pageHeight,
                       <<c.pageNum, c.numPages - 1>>)
         IN [h EXCEPT !.pageIsOpen = TRUE,
                      !.Y = pageHeight - contentMarginBottom - fontSize]

preparePage(c) ==
    IF c.pageIsOpen THEN c
    ELSE LET h == Draw(c, "header", leftMargin, pageHeight,
                       <<c.pageNum, c.numPages - 1>>)
         IN [h EXCEPT !.pageNum = @ + 1,
                      !.numPages = IF @ < c.pageNum + 1 THEN c.pageNum + 1 ELSE @,
                      !.pageIsOpen = TRUE,
                      !.Y = pageHeight - contentMarginBottom - fontSize]

\* an endPage that leaves pageIsOpen set
endPageStaysOpen(c) ==
    IF ~c.pageIsOpen THEN c
    ELSE [Draw(c, "showPage", 0, 0, <<>>) EXCEPT !.pages = @ + 1]

endPage(c) ==
    IF ~c.pageIsOpen THEN c
    ELSE [Draw(c, "showPage", 0, 0, <<>>) EXCEPT !.pages = @ + 1, !.pageIsOpen = FALSE]

checkIfPageIsFull(c) ==
    IF c.pageIsOpen /\ c.Y < contentMarginBottom THEN endPage(c) ELSE c

\* drawLine(leftMargin, y, pageWidth - rightMargin, y, ...)
drawLine(c, y, kind) == Draw(preparePage(checkIfPageIsFull(c)), kind, leftMargin, y, <<>>)

drawChunkSeparator(c, y) == drawLine(c, y, "separator")

\* outputLineNumber: draws the gutter at c.Y and returns the x after it
GutterWidth(digits, lineNumber, isFirstLine) ==
    IF isFirstLine THEN Max({digits, NumDigits(lineNumber)}) + 1
    ELSE (IF digits > 3 THEN 3 ELSE digits) + 1

outputLineNumber(c, digits, lineNumber, isFirstLine) ==
    Draw(c, IF isFirstLine THEN "number" ELSE "dots", leftMargin, c.Y,
         <<lineNumber, GutterWidth(digits, lineNumber, isFirstLine)>>)

isspace(ch) == ch \in Whitespace

\* cvs.drawText(t): the characters put into the text object t are drawn
drawText(c, t) ==
    [c EXCEPT !.log = @ \o [k \in 1..Len(t.run) |->
                               [op |-> "text", page |-> c.pages + 1, open |-> c.pageIsOpen,
                                x |-> t.run[k].x, y |-> t.run[k].y, arg |-> t.run[k].ch]]]

drawStrikeoutsAndUnderlines(c, strikes, underlines) ==
    LET all == strikes \o underlines
    IN [c EXCEPT !.log = @ \o [k \in 1..Len(all) |->
                                  [op |-> all[k].op, page |-> c.pages + 1,
                                   open |-> c.pageIsOpen,
                                   x |-> all[k].x, y |-> all[k].y, arg |-> all[k].ch]]]

\* a page break that keeps the strikes and underlines gathered so far
NewTextObjectKeepsMarks(t) == [t EXCEPT !.x0 = leftMargin, !.x = leftMargin, !.run = <<>>]

\* strikes=[]; underlines=[]; t = cvs.beginText(leftMargin,Y)
NewTextObject(t) ==
    [t EXCEPT !.x0 = leftMargin, !.x = leftMargin, !.run = <<>>,
              !.strikes = <<>>, !.underlines = <<>>]

\* a wrap that moves the text but not Y
NextLineDownStays(c) == c

\* go to next line down: Y -= fontSize
NextLineDown(c) == [c EXCEPT !.Y = @ - fontSize]

\* a deleted line that wraps like the others
TruncatesNever(changeType) == FALSE

\* if changeType == ChangeType.DELETED: truncate; draw arrow
Truncates(changeType) == changeType = "DELETED"

\* the loop of outputText from the k-th character of txt on; t is the text
\* object (x0: the start of its lines, x: t.getX(), run: its characters)
RECURSIVE TextLoop(_, _, _, _, _, _, _)
TextLoop(c, t, txt, k, digits, lineNumber, changeType) ==
    IF k > Len(txt)
    THEN drawStrikeoutsAndUnderlines(drawText(c, t), t.strikes, t.underlines)
    ELSE LET ch == txt[k]
             over == t.x + charWidth(ch) >= pageWidth - rightMargin
         IN IF over /\ Truncates(changeType)
            THEN drawStrikeoutsAndUnderlines(
                     drawText(Draw(c, "arrow", t.x, c.Y, <<>>), t),
                     t.strikes, t.underlines)
            ELSE LET \* go to next line down
                     c1 == IF over THEN NextLineDown(c) ELSE c
                     t1 == IF over THEN [t EXCEPT !.x = t.x0] ELSE t
                     full == c1.Y < contentMarginBottom
                     \* finish this text object and start a new page
                     c2 == IF full
                           THEN preparePage(endPage(
                                    drawStrikeoutsAndUnderlines(drawText(c1, t1),
                                                                t1.strikes, t1.underlines)))
                           ELSE c1
                     t2 == IF full THEN NewTextObject(t1) ELSE t1
                     c3 == IF over \/ full
                           THEN outputLineNumber(c2, digits, lineNumber, FALSE)
                           ELSE c2
                     start == t2.start \/ ~isspace(ch)
                     c4 == IF start THEN Draw(c3, "rect", t2.x, c3.Y, ch) ELSE c3
                     mark == [op |-> IF changeType = "DELETED" THEN "strike" ELSE "underline",
                              x |-> t2.x, y |-> c4.Y, ch |-> ch]
                     t3 == [t2 EXCEPT
                              !.start = start,
                              !.run = Append(@, [x |-> t2.x, y |-> c4.Y, ch |-> ch]),
                              !.x = @ + charWidth(ch),
                              !.strikes = IF changeType = "DELETED" /\ start
                                          THEN Append(@, mark) ELSE @,
                              !.underlines = IF changeType = "INSERTED" /\ start
                                             THEN Append(@, mark) ELSE @]
                 IN TextLoop(c4, t3, txt, k + 1, digits, lineNumber, changeType)

\* outputText(txt, lineNumber, changeType) with numLineNumberDigits = digits
outputText(c, txt, digits, lineNumber, changeType) ==
    LET c1 == outputLineNumber(preparePage(checkIfPageIsFull(c)), digits, lineNumber, TRUE)
        x == leftMargin + GutterWidth(digits, lineNumber, TRUE) * charWidth(" ")
        t == [x0 |-> x, x |-> x, run |-> <<>>, strikes |-> <<>>, underlines |-> <<>>,
              start |-> FALSE]
    IN TextLoop(c1, t, txt, 1, digits, lineNumber, changeType)

(***************************************************************************)
(* main as a state machine: the two-pass loop, one step per file banner    *)
(* and per change record.                                                  *)
(***************************************************************************)
\* the variables of main before the two-pass loop
MainInit(state) ==
    /\ pass = 0
    /\ lpc = state
    /\ fileI = 0
    /\ changeI = 0
    /\ firstChunk = TRUE
    /\ Y = 0
    /\ pageIsOpen = FALSE
    /\ pageNum = 1
    /\ numPages = 0
    /\ numLineNumberDigits = 1
    /\ pages = 0
    /\ log = <<>>
    /\ pass1Pages = 0

\* no call of getContainingFunction is under way
NoCall ==
    /\ gcfData = [lines |-> <<>>, nl |-> TRUE]
    /\ gcfLine = 0
    /\ gcfLabel = <<>>
    /\ gcfPc = "idle"

\* the parser alone: main has not started
Init ==
    /\ ParseInit
    /\ NoCall
    /\ pageHeight = 36
    /\ ignoreBlankLines = "yes"
    /\ showContainingFunction = TRUE
    /\ changesToIgnoreByFilename = [k \in {} |-> {}]
    /\ MainInit("idle")

vars == <<pvars, cfgvars, lvars, gvars>>

Next == ParseNext

Spec == Init /\ [][Next]_vars

\* the pieces of diff's output for the roots a and b, in the order of the
\* names: a binary file g, a directory k that became a file, an added object
\* file k.o, a removed file t, an added file w, and the diffs of x (two
\* hunks), y (one hunk) and z (one hunk, from line 9 to line 10)
MaxItems == 2

LayoutItems ==
    LET a == <<"a">>
        b == <<"b">>
    IN << <<LBinary(a, b)>>,
          <<LFileType(a, b)>>,
          <<LOnlyIn(b, <<"k", ".", "o">>)>>,
          <<LOnlyIn(a, <<"t">>)>>,
          <<LOnlyIn(b, <<"w">>)>>,
          <<LDiff(a, b), LHeader1(a, <<"x">>), LHeader2(b, <<"x">>),
            <<"@", "@", " ", "-", "1", ",", "2", " ", "+", "1", ",", "2", " ", "@", "@">>,
            <<"-", "o">>, <<" ">>, <<"+", "n">>,
            <<"@", "@", " ", "-", "3", " ", "+", "1", "2", ",", "2", " ", "@", "@">>,
            <<"-", "a", "b", "c", "d", "e", "f", "g", "h">>,
            <<"+", "a", "b", "c", "d", "e", "f", "g", "h">> >>,
          <<LHeader1(a, <<"y">>), LHeader2(b, <<"y">>),
            <<"@", "@", " ", "-", "3", " ", "+", "1", "2", ",", "2", " ", "@", "@">>,
            <<"-", "a", "b", "c", "d">>,
            <<"+", "n">> >>,
          <<LHeader1(a, <<"z">>), LHeader2(b, <<"z">>),
            <<"@", "@", " ", "-", "9", ",", "2", " ", "+", "9", ",", "2", " ", "@", "@">>,
            <<" ", "c">>,
            <<"+", "n">> >> >>

\* the items chosen by the set S of indexes, from the k-th on, in order
RECURSIVE JoinItems(_, _)
JoinItems(S, k) ==
    IF k > Len(LayoutItems) THEN <<>>
    ELSE (IF k \in S THEN LayoutItems[k] ELSE <<>>) \o JoinItems(S, k + 1)

LayoutDocs ==
    { JoinItems(S, 1) : S \in { T \in SUBSET (1..Len(LayoutItems)) : Cardinality(T) <= MaxItems } }

\* the --discard lists tried: none, line 12 of x, and line 1 of x
DiscardLists ==
    { [k \in {} |-> {}], [k \in { <<"x">> } |-> {12}], [k \in { <<"x">> } |-> {1}] }

LayoutInit ==
    /\ \E doc \in LayoutDocs :
         LET p == getDifferences(<<"a">>, <<"b">>, doc)
         IN /\ dir1 = p.dir1 /\ dir2 = p.dir2 /\ o = p.o /\ i = p.i
            /\ changeset = p.changeset /\ bound = p.bound
            /\ fname = p.fname /\ fname1 = p.fname1 /\ fname2 = p.fname2
            /\ lineNum1 = p.lineNum1 /\ lineNum2 = p.lineNum2 /\ pc = p.pc
    /\ pageHeight \in PageHeights
    /\ ignoreBlankLines \in {"yes", "no"}
    /\ showContainingFunction \in BOOLEAN
    /\ changesToIgnoreByFilename \in DiscardLists
    /\ MainInit("pass")
    /\ NoCall

ApplyCursor(c) ==
    /\ Y' = c.Y
    /\ pageIsOpen' = c.pageIsOpen
    /\ pageNum' = c.pageNum
    /\ numPages' = c.numPages
    /\ pages' = c.pages
    /\ log' = c.log

\* sorted(changeset.keys())
FileNames == Sorted(DOMAIN changeset)

\* the file and the change the loops are at
CurrentFile == FileNames[fileI + 1]

CurrentChange == changeset[CurrentFile][changeI + 1]

\* a loop that ignores no file
IgnoredNever(fn) == FALSE

\* the file's base name matches an ignore glob
Ignored(fn) == \E k \in 1..Len(ignoreGlobs) : fnmatch(Basename(fn), ignoreGlobs[k])

\* a discard line number lies in line1..line2 of the change
ignoreThisChange(fn, change) ==
    LET b == Basename(fn)
    IN /\ b \in DOMAIN changesToIgnoreByFilename
       /\ \E n \in changesToIgnoreByFilename[b] : change.line1 <= n /\ n <= change.line2

\* the suffix of the file name in the banner
BannerSuffix(changes) ==
    IF changes = <<>> THEN ""
    ELSE IF changes[1].type = "REMOVED_FILE" THEN " [file deleted]"
    ELSE IF changes[1].type = "ADDED_FILE" THEN " [file added]"
    ELSE IF changes[1].type = "DIFFERING_BINARY" THEN " [binary files differ]"
    ELSE ""

\* for i in range(2): a new canvas, pageNum = 1, preparePage(); main gets
\* here only when getDifferences has returned the changeset
BeginPass ==
    /\ pc = "returned"
    /\ lpc = "pass"
    /\ ApplyCursor(preparePage([Cursor EXCEPT !.pageNum = 1, !.pages = 0]))
    /\ fileI' = 0
    /\ changeI' = 0
    /\ lpc' = "file"
    /\ UNCHANGED <<pass, firstChunk, numLineNumberDigits, pass1Pages>>
    /\ UNCHANGED <<pvars, cfgvars, gvars>>

\* a file whose base name matches an ignore glob: continue
SkipFile ==
    /\ lpc = "file"
    /\ fileI < Len(FileNames)
    /\ Ignored(CurrentFile)
    /\ fileI' = fileI + 1
    /\ log' = <<>>
    /\ UNCHANGED <<pass, lpc, changeI, firstChunk, Y, pageIsOpen, pageNum, numPages,
                   numLineNumberDigits, pages, pass1Pages>>
    /\ UNCHANGED <<pvars, cfgvars, gvars>>

\* a banner that never ends the page first
BannerBreakNever(c) == c

\* the page is ended first when the banner and a line do not fit on it
BannerBreak(c) ==
    IF c.Y < contentMarginBottom + SPACE + fontSize + SPACE + SPACE + fontSize
    THEN endPage(c) ELSE c

\* the banner of a file: lines 605-636
Banner ==
    /\ lpc = "file"
    /\ fileI < Len(FileNames)
    /\ ~Ignored(CurrentFile)
    /\ LET c0 == BannerBreak(Cursor)
           c1 == preparePage(c0)
           c2 == drawLine(c1, c1.Y, "rule")
           c3 == [c2 EXCEPT !.Y = @ - SPACE]
           c4 == drawLine(c3, c3.Y, "rule")
           c5 == [c4 EXCEPT !.Y = @ - fontSize]
           c6 == Draw(c5, "filename", pageWidth \div 2, c5.Y,
                      <<Basename(CurrentFile), BannerSuffix(changeset[CurrentFile])>>)
           c7 == [c6 EXCEPT !.Y = @ - SPACE]
           c8 == drawLine(c7, c7.Y, "rule")
           c9 == [c8 EXCEPT !.Y = @ - SPACE]
           c10 == drawLine(c9, c9.Y, "rule")
           c11 == [c10 EXCEPT !.Y = @ - fontSize]
       IN ApplyCursor(c11)
    /\ changeI' = 0
    /\ firstChunk' = TRUE
    /\ lpc' = "change"
    /\ UNCHANGED <<pass, fileI, numLineNumberDigits, pass1Pages>>
    /\ UNCHANGED <<pvars, cfgvars, gvars>>

AtChange == lpc = "change" /\ changeI < Len(changeset[CurrentFile])

\* a change that a discard line number covers is skipped
DiscardChange ==
    /\ AtChange
    /\ ignoreThisChange(CurrentFile, CurrentChange)
    /\ changeI' = changeI + 1
    /\ log' = <<>>
    /\ UNCHANGED <<pass, lpc, fileI, firstChunk, Y, pageIsOpen, pageNum, numPages,
                   numLineNumberDigits, pages, pass1Pages>>
    /\ UNCHANGED <<pvars, cfgvars, gvars>>

\* a separator drawn for the first chunk of a file as well
ChunkSeparatorAlways(c, first) ==
    [drawChunkSeparator(c, c.Y) EXCEPT !.Y = @ - (fontSize \div 4) - fontSize]

\* draw separator: if not firstChunk
ChunkSeparator(c, first) ==
    IF first THEN c
    ELSE [drawChunkSeparator(c, c.Y) EXCEPT !.Y = @ - (fontSize \div 4) - fontSize]

\* change.type == ChangeType.NEW_CHUNK: lines 651-684
NewChunk ==
    /\ AtChange
    /\ ~ignoreThisChange(CurrentFile, CurrentChange)
    /\ CurrentChange.type = "NEW_CHUNK"
    /\ LET change == CurrentChange
           c0 == Cursor
           c1 == ChunkSeparator(c0, firstChunk)
           c2 == checkIfPageIsFull(c1)
           filename2 == change.content[2]
           containing2 == getContainingFunction(filename2, change.line2)
           c3 == preparePage(checkIfPageIsFull(c2))
           c4 == [Draw(c3, "label", pageWidth \div 2, c3.Y, containing2)
                    EXCEPT !.Y = @ - fontSize]
       IN /\ numLineNumberDigits' = NumDigits(Max({change.line1, change.line2, 1}))
          /\ IF ~showContainingFunction
             THEN ApplyCursor(c2) /\ lpc' = lpc
             ELSE IF ~SourceExists(filename2)
             THEN ApplyCursor(c2) /\ lpc' = "crashed"
             ELSE IF containing2 # <<>>
             THEN ApplyCursor(c4) /\ lpc' = lpc
             ELSE ApplyCursor(c2) /\ lpc' = lpc
    /\ firstChunk' = FALSE
    /\ changeI' = changeI + 1
    /\ UNCHANGED <<pass, fileI, pass1Pages>>
    /\ UNCHANGED <<pvars, cfgvars, gvars>>

\* DIFFERING_BINARY, REMOVED_FILE, ADDED_FILE: pass
FileMarker ==
    /\ AtChange
    /\ ~ignoreThisChange(CurrentFile, CurrentChange)
    /\ CurrentChange.type \in {"DIFFERING_BINARY", "REMOVED_FILE", "ADDED_FILE"}
    /\ changeI' = changeI + 1
    /\ log' = <<>>
    /\ UNCHANGED <<pass, lpc, fileI, firstChunk, Y, pageIsOpen, pageNum, numPages,
                   numLineNumberDigits, pages, pass1Pages>>
    /\ UNCHANGED <<pvars, cfgvars, gvars>>

\* if ignoreBlankLines and len(change.content.strip()) == 0
IsSkippedBlank(change) == ignoreBlankLines # "" /\ strip(change.content) = <<>>

\* a DELETED, INSERTED or CONTEXT change that is skipped as blank
BlankLine ==
    /\ AtChange
    /\ ~ignoreThisChange(CurrentFile, CurrentChange)
    /\ CurrentChange.type \in {"DELETED", "INSERTED", "CONTEXT"}
    /\ IsSkippedBlank(CurrentChange)
    /\ changeI' = changeI + 1
    /\ log' = <<>>
    /\ UNCHANGED <<pass, lpc, fileI, firstChunk, Y, pageIsOpen, pageNum, numPages,
                   numLineNumberDigits, pages, pass1Pages>>
    /\ UNCHANGED <<pvars, cfgvars, gvars>>

\* a DELETED, INSERTED or CONTEXT change: outputText and Y -= fontSize
TextLine ==
    /\ AtChange
    /\ ~ignoreThisChange(CurrentFile, CurrentChange)
    /\ CurrentChange.type \in {"DELETED", "INSERTED", "CONTEXT"}
    /\ ~IsSkippedBlank(CurrentChange)
    /\ LET change == CurrentChange
           lineNumber == IF change.type = "DELETED" THEN change.line1 ELSE change.line2
           c == outputText(Cursor, change.content, numLineNumberDigits, lineNumber,
                           change.type)
       IN ApplyCursor([c EXCEPT !.Y = @ - fontSize])
    /\ changeI' = changeI + 1
    /\ UNCHANGED <<pass, lpc, fileI, firstChunk, numLineNumberDigits, pass1Pages>>
    /\ UNCHANGED <<pvars, cfgvars, gvars>>

\* the changes of the file are done: the next file
NextFile ==
    /\ lpc = "change"
    /\ changeI >= Len(changeset[CurrentFile])
    /\ fileI' = fileI + 1
    /\ lpc' = "file"
    /\ log' = <<>>
    /\ UNCHANGED <<pass, changeI, firstChunk, Y, pageIsOpen, pageNum, numPages,
                   numLineNumberDigits, pages, pass1Pages>>
    /\ UNCHANGED <<pvars, cfgvars, gvars>>

\* the files are done: endPage(), and the next pass or the end of the loop
EndPass ==
    /\ lpc = "file"
    /\ fileI >= Len(FileNames)
    /\ ApplyCursor(endPage(Cursor))
    /\ IF pass = 0
       THEN pass' = 1 /\ lpc' = "pass" /\ pass1Pages' = numPages - 1
       ELSE pass' = pass /\ lpc' = "save" /\ pass1Pages' = pass1Pages
    /\ UNCHANGED <<fileI, changeI, firstChunk, numLineNumberDigits>>
    /\ UNCHANGED <<pvars, cfgvars, gvars>>

\* cvs.save()
Save ==
    /\ lpc = "save"
    /\ lpc' = "done"
    /\ log' = <<>>
    /\ UNCHANGED <<pass, fileI, changeI, firstChunk, Y, pageIsOpen, pageNum, numPages,
                   numLineNumberDigits, pages, pass1Pages>>
    /\ UNCHANGED <<pvars, cfgvars, gvars>>

LayoutNext ==
    \/ BeginPass
    \/ SkipFile
    \/ Banner
    \/ DiscardChange
    \/ NewChunk
    \/ FileMarker
    \/ BlankLine
    \/ TextLine
    \/ NextFile
    \/ EndPass
    \/ Save

LayoutSpec == LayoutInit /\ [][LayoutNext]_vars

(***************************************************************************)
(* Properties of the two passes.                                           *)
(***************************************************************************)
\* C1: when pass 2 is over, the page count recorded at the end of pass 1
\* (numPages - 1) equals the number of pages closed during pass 2.
C1_PassOneCountsPassTwo == lpc \in {"save", "done"} => pass1Pages = pages

\* the operations of the canvas calls of the last step
LogOps == { log[k].op : k \in DOMAIN log }

\* the last step was outputText for the change before changeI
TextDrawn == lpc = "change" /\ changeI >= 1 /\ "number" \in LogOps

DrawnChange == changeset[CurrentFile][changeI]

\* the x of the right edge of the last character of the text just drawn, had
\* it been put on one line after its line number
RightEdge ==
    LET g == (CHOOSE k \in DOMAIN log : log[k].op = "number")
    IN leftMargin + log[g].arg[2] * charWidth(" ") + Len(DrawnChange.content) * charWidth("x")

\* C11: a text whose last character ends exactly on the right content margin
\* (or before it) is drawn on one line: it is neither wrapped (no continuation
\* gutter) nor truncated (no arrow).
C11_ExactFitIsDrawn ==
    (TextDrawn /\ RightEdge <= pageWidth - rightMargin)
        => ("dots" \notin LogOps /\ "arrow" \notin LogOps)

(***************************************************************************)
(* Properties of the parser.                                               *)
(***************************************************************************)
BodyTypes == {"INSERTED", "DELETED", "CONTEXT"}

MarkerTypes == {"ADDED_FILE", "REMOVED_FILE", "DIFFERING_BINARY"}

Files == DOMAIN changeset

HasChunk(r) == \E k \in 1..Len(r) : r[k].type = "NEW_CHUNK"

\* the file is an added file: insertedEntireFile made its records
IsAddedFile(r) == r # <<>> /\ r[1].type = "ADDED_FILE"

\* C2: in a returned ChangeSet the first record of every file is a NewChunk or
\* a whole-file marker, and every Inserted, Deleted or Context record has a
\* NewChunk record before it in the same file.  The Inserted records that
\* expand an added file follow its AddedFile record and are left out here.
C2_ChunkBeforeBody ==
    pc = "returned" =>
      \A f \in Files :
        LET r == changeset[f]
        IN /\ r # <<>> => r[1].type \in {"NEW_CHUNK"} \cup MarkerTypes
           /\ \A k \in 1..Len(r) :
                (r[k].type \in BodyTypes /\ ~IsAddedFile(r)) =>
                  \E j \in 1..(k - 1) : r[j].type = "NEW_CHUNK"

\* C3: in a returned ChangeSet a file without a NewChunk record holds exactly
\* one record, a whole-file marker.  An added file, whose AddedFile record is
\* followed by the Inserted records of its content, is left out here.
C3_NoChunkIsOneMarker ==
    pc = "returned" =>
      \A f \in Files :
        LET r == changeset[f]
        IN (~HasChunk(r) /\ ~IsAddedFile(r)) => Len(r) = 1 /\ r[1].type \in MarkerTypes

\* the index of the NewChunk record that opens the hunk of record k (0: none)
HunkOf(r, k) ==
    LET before == {j \in 1..(k - 1) : r[j].type = "NEW_CHUNK"}
    IN IF before = {} THEN 0 ELSE CHOOSE j \in before : \A m \in before : m <= j

\* the number of records of the types T strictly between the indexes c and k
Between(r, c, k, T) == Cardinality({j \in (c + 1)..(k - 1) : r[j].type \in T})

\* C4: within a hunk, line1 of a record is the NewChunk's line1 plus the number
\* of Context/Deleted records of the hunk before it, and line2 is the
\* NewChunk's line2 plus the number of Context/Inserted records before it: the
\* counters start at the header's values, go up by exactly 1 per record of
\* their side, a Deleted record leaves line2 alone and an Inserted one line1.
C4_HunkCounters ==
    \A f \in Files :
      LET r == changeset[f]
      IN \A k \in 1..Len(r) :
           (r[k].type \in BodyTypes /\ HunkOf(r, k) # 0) =>
             LET c == HunkOf(r, k)
             IN /\ r[k].line1 = r[c].line1 + Between(r, c, k, {"CONTEXT", "DELETED"})
                /\ r[k].line2 = r[c].line2 + Between(r, c, k, {"CONTEXT", "INSERTED"})

\* a returned hunk in which a Deleted, an Inserted and a Context record follow
\* one another
C4_Witness ==
    /\ pc = "returned"
    /\ \E f \in Files :
         LET r == changeset[f]
         IN \E k \in 1..(Len(r) - 3) :
              /\ r[k].type = "NEW_CHUNK"
              /\ r[k + 1].type = "DELETED"
              /\ r[k + 2].type = "INSERTED"
              /\ r[k + 3].type = "CONTEXT"

\* the line is an '@@' header whose left or right start line is 0 or less
BadChunkHeader(line) ==
    /\ Branch(line) = "chunk"
    /\ LET spec == SplitWords(strip(From(line, 2)))
       IN /\ Len(spec) >= 2
          /\ ChunkStart(spec[1], "-").ok
          /\ ChunkStart(spec[2], "+").ok
          /\ (ChunkStart(spec[1], "-").n <= 0 \/ ChunkStart(spec[2], "+").n <= 0)

\* C5: every NewChunk record has line1 >= 1 and line2 >= 1, and once an '@@'
\* header with a start line of 0 or less has been consumed the parse has
\* aborted.
C5_ChunkStartsPositive ==
    /\ \A f \in Files :
         \A k \in 1..Len(changeset[f]) :
           changeset[f][k].type = "NEW_CHUNK" =>
             changeset[f][k].line1 >= 1 /\ changeset[f][k].line2 >= 1
    /\ (i > 0 /\ BadChunkHeader(o[i])) => pc = "aborted"

\* the parse aborted on an '@@' header with a start line of 0, which left no
\* record
C5_Witness ==
    /\ pc = "aborted"
    /\ i > 0
    /\ BadChunkHeader(o[i])
    /\ HasFile(PState)
    /\ changeset[fname] = <<>>

ScenarioKey == <<"b", "/", "x", ".", "t", "x", "t">>

\* the record has the given type, line numbers and text
IsChange(rec, type, line1, line2, text) ==
    /\ rec.type = type
    /\ rec.line1 = line1
    /\ rec.line2 = line2
    /\ rec.type \in BodyTypes => rec.content = text

\* C6 as stated: the scenario yields NewChunk(1,1), Deleted(1,1,old),
\* Inserted(1,2,new), Context(2,3,context) under the key b/x.txt.
C6_ScenarioAsStated ==
    (o = ScenarioInput /\ pc = "returned") =>
      /\ Files = {ScenarioKey}
      /\ Len(changeset[ScenarioKey]) = 4
      /\ IsChange(changeset[ScenarioKey][1], "NEW_CHUNK", 1, 1, <<>>)
      /\ IsChange(changeset[ScenarioKey][2], "DELETED", 1, 1, <<"o", "l", "d">>)
      /\ IsChange(changeset[ScenarioKey][3], "INSERTED", 1, 2, <<"n", "e", "w">>)
      /\ IsChange(changeset[ScenarioKey][4], "CONTEXT", 2, 3,
                  <<"c", "o", "n", "t", "e", "x", "t">>)

\* C6 amended: the scenario yields NewChunk(1,1), Deleted(1,1,old),
\* Inserted(line1=2,line2=1,new), Context(line1=2,line2=2,context) under the
\* key b/x.txt: each record carries the counters as they are before it.
C6_Scenario ==
    (o = ScenarioInput /\ pc = "returned") =>
      /\ Files = {ScenarioKey}
      /\ Len(changeset[ScenarioKey]) = 4
      /\ IsChange(changeset[ScenarioKey][1], "NEW_CHUNK", 1, 1, <<>>)
      /\ IsChange(changeset[ScenarioKey][2], "DELETED", 1, 1, <<"o", "l", "d">>)
      /\ IsChange(changeset[ScenarioKey][3], "INSERTED", 2, 1, <<"n", "e", "w">>)
      /\ IsChange(changeset[ScenarioKey][4], "CONTEXT", 2, 2,
                  <<"c", "o", "n", "t", "e", "x", "t">>)

\* the scenario has been parsed to its end
C6_Witness == o = ScenarioInput /\ pc = "returned" /\ ScenarioKey \in Files

\* the line begins with '-' and is not the first line of a '---' / '+++' pair
DashBodyLine(p) ==
    /\ Parsing(p)
    /\ StartsWith(Line(p), <<"-">>)
    /\ ~(/\ StartsWith(Line(p), <<"-", "-", "-">>)
         /\ p.i + 1 < Len(p.o)
         /\ StartsWith(p.o[p.i + 2], <<"+", "+", "+">>))

\* C7: a line that begins with '-' and is not the first line of a '---' /
\* '+++' pair appends exactly one Deleted record with the current counters to
\* the current file and increments only counter1.
C7_DashLineIsDeleted ==
    [][ (DashBodyLine(PState) /\ HasFile(PState)) =>
          /\ pc' = "parse"
          /\ fname' = fname
          /\ DOMAIN changeset' = DOMAIN changeset
          /\ \A f \in Files \ {fname} : changeset'[f] = changeset[f]
          /\ Len(changeset'[fname]) = Len(changeset[fname]) + 1
          /\ SubSeq(changeset'[fname], 1, Len(changeset[fname])) = changeset[fname]
          /\ LET rec == changeset'[fname][Len(changeset'[fname])]
             IN rec.type = "DELETED" /\ rec.line1 = lineNum1 /\ rec.line2 = lineNum2
          /\ lineNum1' = lineNum1 + 1
          /\ lineNum2' = lineNum2 ]_vars

\* DIR is the root or a directory below it
BelongsTo(dir, root) == dir = root \/ StartsWith(dir, root \o <<"/">>)

\* C8: in a returned ChangeSet an 'Only in DIR: NAME' line whose DIR belongs to
\* the first root has produced exactly one RemovedFile record for the entry
\* and nothing else, and one whose DIR belongs to the second root an AddedFile
\* expansion.
C8_OnlyInByRoot ==
    pc = "returned" =>
      \A k \in 1..Len(o) :
        LET M == OnlyInMatch(o[k])
            fn == PathJoin(M.g1, M.g2)
        IN (Branch(o[k]) = "onlyin" /\ M.ok) =>
             /\ BelongsTo(M.g1, dir1) =>
                  /\ fn \in Files
                  /\ Len(changeset[fn]) = 1
                  /\ changeset[fn][1].type = "REMOVED_FILE"
             /\ (BelongsTo(M.g1, dir2) /\ ~IsDir(fn)) =>
                  /\ fn \in Files
                  /\ changeset[fn][1].type = "ADDED_FILE"

\* the number of lines of a text: the newline-terminated lines, and the text
\* after the last newline when there is some
NumLines(data) ==
    Cardinality({k \in 1..Len(data) : data[k] = "\n"})
      + (IF data # <<>> /\ data[Len(data)] # "\n" THEN 1 ELSE 0)

\* C9: a non-binary added file yields one AddedFile record and then exactly
\* one Inserted record per line of its content, the k-th with line1 = 1 and
\* line2 = k: n newline-terminated lines yield n Inserted records.
C9_OneInsertedPerLine ==
    pc = "returned" =>
      \A f \in Files :
        LET r == changeset[f]
            data == FileData(f)
        IN (r # <<>> /\ r[1].type = "ADDED_FILE" /\ ~IsBinaryData(data)) =>
             /\ Len(r) = 1 + NumLines(data)
             /\ \A k \in 2..Len(r) :
                  r[k].type = "INSERTED" /\ r[k].line1 = 1 /\ r[k].line2 = k - 1

\* strictly more than half of the first 100 characters are not printable ASCII
MostlyBinary(data) ==
    LET head == UpTo(data, HeadLen)
    IN 2 * Cardinality({k \in 1..Len(head) : head[k] \notin Printable}) > Len(head)

\* C10: the content of an added file is replaced by the single sentinel line
\* if and only if strictly more than half of its first 100 characters are
\* not printable ASCII.
C10_SentinelIffMostlyBinary ==
    pc = "returned" =>
      \A f \in Files :
        LET r == changeset[f]
        IN (r # <<>> /\ r[1].type = "ADDED_FILE") =>
             ((Len(r) = 2 /\ r[2].content = BinarySentinel) <=> MostlyBinary(FileData(f)))

(***************************************************************************)
(* Properties of the rendering of the records.                             *)
(***************************************************************************)
\* the last step went over a text record without any canvas call although
\* blank-line suppression does not apply to it: the discard list skipped it
TextDiscarded ==
    /\ lpc = "change" /\ changeI >= 1
    /\ DrawnChange.type \in BodyTypes
    /\ ~IsSkippedBlank(DrawnChange)
    /\ log = <<>>

\* the NewChunk record of the hunk of the record the last step went over
\* is covered by a discard line number
HunkDiscarded ==
    LET r == changeset[CurrentFile]
        h == HunkOf(r, changeI)
    IN h # 0 /\ ignoreThisChange(CurrentFile, r[h])

\* C12: a text record is drawn only if the NewChunk of its hunk is not covered
\* by a discard line number (a covered hunk is skipped whole, with no draw
\* and no cursor change), and it is skipped by the discard list only if the
\* NewChunk of its hunk is covered (uncovered hunks are rendered whole).
C12_DiscardIsPerHunk ==
    /\ TextDrawn => ~HunkDiscarded
    /\ TextDiscarded => HunkDiscarded

\* the last step went over a text record that no discard line number covers
TextPassed ==
    /\ lpc = "change" /\ changeI >= 1
    /\ DrawnChange.type \in BodyTypes
    /\ ~ignoreThisChange(CurrentFile, DrawnChange)

\* C13: with --ignore-blank-lines no, every Context, Inserted or Deleted
\* record that is not discarded is drawn as a text line, blank or not.
C13_NoSuppressionDrawsBlank == (ignoreBlankLines = "no" /\ TextPassed) => TextDrawn

(***************************************************************************)
(* Properties of the pages.                                                *)
(***************************************************************************)
\* the header and footer drawn by the last step: {pagenum} and {numpages}
Headers == { k \in DOMAIN log : log[k].op = "header" }

\* C14: in pass 2 the header and footer of the k-th page opened show
\* {pagenum} = k and {numpages} = the page count found by pass 1, so that
\* pagenum <= numpages on every page.
C14_PageOfTotal ==
    pass = 1 =>
      \A k \in Headers :
        /\ log[k].arg[1] = log[k].page
        /\ log[k].arg[2] = pass1Pages
        /\ log[k].arg[1] <= log[k].arg[2]

(***************************************************************************)
(* Properties of a run: the parse, the passes and the save.                *)
(***************************************************************************)
\* the lines of diff's output that no branch of the parser takes
UnknownLines == { k \in DOMAIN o : Branch(o[k]) = "unknown" }

\* C15: when diff's output holds a line of none of the known forms, the parse
\* aborts: no changeset is returned, no pass starts (no page is opened, no
\* canvas call is made) and no document is saved.
C15_UnknownLineAborts ==
    UnknownLines # {} =>
      /\ pc = "aborted"
      /\ lpc = "pass" /\ pass = 0
      /\ ~pageIsOpen /\ numPages = 0 /\ pages = 0 /\ log = <<>>

\* an unknown line after a file that was parsed: the parse has aborted there
C15_Witness ==
    /\ \E k \in UnknownLines : k > 1 /\ i = k - 1
    /\ changeset # [k \in {} |-> <<>>]
    /\ pc = "aborted"

(***************************************************************************)
(* Properties of the file identities of the parser.                        *)
(***************************************************************************)
\* the key that the line the parser is at creates in the changeset: the name
\* of an 'Only in' line, the first name of a 'Binary files' line, the name of
\* the '+++' line of a header pair
CreatedKeys ==
    IF ~Parsing(PState) THEN {}
    ELSE LET line == Line(PState)
             b == Branch(line)
         IN IF b = "onlyin" /\ OnlyInMatch(line).ok
            THEN {PathJoin(OnlyInMatch(line).g1, OnlyInMatch(line).g2)}
            ELSE IF b = "binary" /\ BinaryMatch(line).ok
            THEN {BinaryMatch(line).g1}
            ELSE IF b = "header" /\ i + 2 <= Len(o) /\ StartsWith(o[i + 2], <<"+", "+", "+">>)
            THEN {Split(strip(From(o[i + 2], 4)), "\t")[1]}
            ELSE {}

IsPrefix(s, t) == Len(s) <= Len(t) /\ \A k \in 1..Len(s) : t[k] = s[k]

\* C16: a line that creates a file whose key is already in the changeset
\* aborts the parse, and no step replaces or resets the records of a file
\* of the changeset: they stay, and only grow at the end.
C16_FileCreatedOnce ==
    [][ /\ (CreatedKeys \cap DOMAIN changeset # {}) => pc' = "aborted"
        /\ \A f \in DOMAIN changeset :
             f \in DOMAIN changeset' /\ IsPrefix(changeset[f], changeset'[f]) ]_vars

\* a second '---'/'+++' pair for a file that has records has aborted the
\* parse at the end of diff's output, the records still there
C16_Witness ==
    /\ pc = "aborted"
    /\ i = Len(o) /\ i >= 2
    /\ StartsWith(o[i - 1], <<"-", "-", "-">>)
    /\ StartsWith(o[i], <<"+", "+", "+">>)
    /\ fname \in DOMAIN changeset
    /\ changeset[fname] # <<>>

(***************************************************************************)
(* Properties of the cursor across the passes.                             *)
(***************************************************************************)
\* a pass has just started: its first page is prepared, no file is done yet
PassStarted == lpc = "file" /\ fileI = 0

\* C17: each pass starts with the same cursor: the page open on page 1 (the
\* page number counter at 2 after preparePage), Y at the top of the content
\* and the line-number column width at its initial value 1; of the cursor
\* only the running page count numPages differs between the passes.
C17_CursorResetPerPass ==
    PassStarted =>
      /\ pageIsOpen
      /\ pageNum = 2
      /\ Y = pageHeight - contentMarginBottom - fontSize
      /\ numLineNumberDigits = 1

\* the pages opened (preparePage drew a header) and the pages closed
\* (endPage called showPage) by the last step
Opens == Cardinality({ k \in DOMAIN log : log[k].op = "header" })

Closes == Cardinality({ k \in DOMAIN log : log[k].op = "showPage" })

\* the page number counter a step starts from: a pass starts it at 1
PageNumBase == IF lpc = "pass" THEN 1 ELSE pageNum

\* C18 as stated: a step raises the page number counter by the number of
\* pages it closes and updates the running maximum page count then; opening
\* a page changes neither.
C18_CountOnClose ==
    [][ /\ pageNum' = PageNumBase + Closes'
        /\ numPages' = IF Closes' > 0 THEN Max({numPages, pageNum'}) ELSE numPages ]_vars

\* C18: a step raises the page number counter by the number of pages it
\* opens (preparePage) and updates the running maximum page count then;
\* closing a page (endPage) changes neither.
C18_CountOnOpen ==
    [][ /\ pageNum' = PageNumBase + Opens'
        /\ numPages' = IF Opens' > 0 THEN Max({numPages, pageNum'}) ELSE numPages ]_vars

\* the pass has closed a page without opening one (its end), the counters
\* being those of the pages opened
C18_Witness ==
    /\ Closes = 1 /\ Opens = 0
    /\ pages >= 2
    /\ pageNum = pages + 1 /\ numPages = pageNum

(***************************************************************************)
(* Properties of the banner and of the chunk separator.                    *)
(***************************************************************************)
\* the canvas calls of the last step that draw a banner: rules and filename
BannerCalls == { k \in DOMAIN log : log[k].op \in {"rule", "filename"} }

\* the room a banner takes above the bottom content margin
BannerRoom == 3 * SPACE + 2 * fontSize

\* C19: a step that draws a banner draws its four rules and its filename on
\* one page, an open one, with no page closed or opened between them; when
\* less than BannerRoom was left above the bottom content margin the step
\* first closes the page; and the cursor it leaves is not below the bottom
\* content margin.
C19_BannerOnOnePage ==
    [][ ("filename" \in LogOps') =>
          /\ Cardinality({ k \in BannerCalls' : log'[k].op = "rule" }) = 4
          /\ \A j, k \in BannerCalls' : log'[j].page = log'[k].page /\ log'[k].open
          /\ \A j \in BannerCalls', k \in DOMAIN log' :
               log'[k].op \in {"showPage", "header"} => k < j
          /\ (pageIsOpen /\ Y < contentMarginBottom + BannerRoom)
               => log'[1].op = "showPage"
          /\ Y' >= contentMarginBottom ]_vars

\* a banner drawn after a forced page break, on the page after a page that
\* holds things
C19_Witness ==
    /\ "filename" \in LogOps
    /\ log[1].op = "showPage"
    /\ \A k \in BannerCalls : log[k].page = 2
    /\ Y >= contentMarginBottom

\* the next step renders a NewChunk record
AtRenderedChunk ==
    /\ AtChange
    /\ ~ignoreThisChange(CurrentFile, CurrentChange)
    /\ CurrentChange.type = "NEW_CHUNK"

\* no NewChunk record of the file before the current one was rendered
FirstRendered ==
    ~\E j \in 1..changeI :
        /\ changeset[CurrentFile][j].type = "NEW_CHUNK"
        /\ ~ignoreThisChange(CurrentFile, changeset[CurrentFile][j])

Separators == { k \in DOMAIN log : log[k].op = "separator" }

\* Y at the top of the content of a page
TopY == pageHeight - contentMarginBottom - fontSize

\* C20: the step that renders the first NewChunk of a file draws no
\* separator and does not move the cursor for one; the step that renders a
\* later NewChunk draws exactly one separator, before anything else of the
\* chunk, and then moves the cursor down by fontSize/4 + fontSize (from the
\* top of the page when drawing the separator opened one).  The containing
\* function label, when drawn, takes one more line.
C20_SeparatorBetweenChunks ==
    [][ AtRenderedChunk =>
          LET sepOpened == \E h \in Headers', k \in Separators' : h < k
              labelOpened == \E h \in Headers' : \A k \in Separators' : h > k
              y1 == IF FirstRendered THEN Y
                    ELSE (IF sepOpened THEN TopY ELSE Y) - (fontSize \div 4 + fontSize)
              y2 == IF "label" \in LogOps'
                    THEN (IF labelOpened THEN TopY ELSE y1) - fontSize
                    ELSE y1
          IN /\ Cardinality(Separators') = IF FirstRendered THEN 0 ELSE 1
             /\ \A k \in Separators', j \in DOMAIN log' :
                  log'[j].op = "label" => k < j
             /\ Y' = y2 ]_vars

\* the second chunk of a file has been rendered on the page of the first:
\* one separator, no page opened
C20_Witness ==
    /\ lpc = "change" /\ changeI >= 2
    /\ DrawnChange.type = "NEW_CHUNK"
    /\ Cardinality(Separators) = 1
    /\ Headers = {}
    /\ ~firstChunk

(***************************************************************************)
(* Properties of outputText.                                               *)
(***************************************************************************)
\* the canvas calls of the last step with the operation op, in order
Calls(op) == { k \in DOMAIN log : log[k].op = op }

\* the next step is outputText for a record of one of the types T
AtText(T) ==
    /\ AtChange
    /\ ~ignoreThisChange(CurrentFile, CurrentChange)
    /\ CurrentChange.type \in T
    /\ ~IsSkippedBlank(CurrentChange)

\* the characters drawn by the last step, in the order of the drawing
DrawnText ==
    LET t == Calls("text")
        Nth(n) == CHOOSE k \in t : Cardinality({ j \in t : j < k }) = n - 1
    IN [n \in 1..Cardinality(t) |-> log[Nth(n)]]

\* C21: outputText draws a Deleted record on one physical line: after the
\* initial page check (which may open a page) no page is closed or opened and
\* no continuation gutter is drawn; the characters drawn are a prefix of the
\* content, all at the y of the line number; there is at most one arrow, to
\* the right of every character drawn, and it is there exactly when
\* characters were dropped; the cursor ends one line (main's Y -= fontSize)
\* below its value after the page check.
C21_DeletedOnOneLine ==
    [][ AtText({"DELETED"}) =>
          LET txt == CurrentChange.content
              y0 == IF Headers' # {} THEN TopY ELSE Y
              d == DrawnText'
          IN /\ Cardinality(Calls("number")') = 1
             /\ Calls("dots")' = {}
             /\ \A k \in Calls("number")', h \in Headers' \cup Calls("showPage")' : h < k
             /\ pageNum' = pageNum + Opens'
             /\ Len(d) <= Len(txt)
             /\ \A n \in 1..Len(d) : d[n].arg = txt[n] /\ d[n].y = y0
             /\ Cardinality(Calls("arrow")') <= 1
             /\ (Calls("arrow")' # {}) <=> (Len(d) < Len(txt))
             /\ \A a \in Calls("arrow")' :
                  log'[a].y = y0 /\ \A n \in 1..Len(d) : d[n].x < log'[a].x
             /\ Y' = y0 - fontSize ]_vars

\* a Deleted record longer than the line has been drawn, with its arrow
C21_Witness ==
    /\ TextDrawn
    /\ DrawnChange.type = "DELETED"
    /\ Len(DrawnChange.content) = 8
    /\ Calls("arrow") # {}
    /\ Len(DrawnText) < 8

\* the pages opened inside the loop of outputText, after the line number
LoopHeaders == { h \in Headers : \A k \in Calls("number") : h > k }

\* C22: outputText draws every character of an Inserted or Context record
\* once and in order, whatever the wraps and page breaks; every wrap draws one
\* continuation gutter and lowers the cursor by fontSize: the cursor ends
\* one line per continuation gutter, and main's one, below its value after
\* the page check, counted from the top of the last page opened in the loop
\* (whose first continuation gutter stands for the wrap that opened it).
C22_WrappedTextIsWhole ==
    [][ AtText({"INSERTED", "CONTEXT"}) =>
          LET txt == CurrentChange.content
              d == DrawnText'
              dots == Calls("dots")'
              last == { h \in LoopHeaders' : \A g \in LoopHeaders' : g <= h }
              y0 == IF Headers' \ LoopHeaders' # {} THEN TopY ELSE Y
              wraps == IF last = {} THEN Cardinality(dots)
                       ELSE Cardinality({ k \in dots : \A h \in last : k > h }) - 1
          IN /\ Len(d) = Len(txt)
             /\ \A n \in 1..Len(d) : d[n].arg = txt[n]
             /\ Calls("arrow")' = {}
             /\ Cardinality(LoopHeaders') <= Cardinality(dots)
             /\ Y' = (IF last = {} THEN y0 ELSE TopY) - wraps * fontSize - fontSize ]_vars

\* an Inserted record has been drawn over a wrap on its page and a wrap that
\* opened a new page
C22_Witness ==
    /\ TextDrawn
    /\ DrawnChange.type = "INSERTED"
    /\ Cardinality(Calls("dots")) >= 2
    /\ LoopHeaders # {}
    /\ Len(DrawnText) = 8

\* the strike and underline segments drawn by the last step
Marks == Calls("strike") \cup Calls("underline")

\* the pages closed inside the loop of outputText, after the line number
LoopCloses == { k \in Calls("showPage") : \A n \in Calls("number") : k > n }

\* C23: when a wrap of a record takes the cursor below the bottom content
\* margin, the text and then the strikes and underlines gathered so far are
\* drawn before the page is closed, the next page is opened right after, and
\* a continuation gutter is drawn on it before anything else; every strike
\* or underline is drawn once, on the page and at the place of the character
\* it decorates, after that character, and every character drawn has one.
C23_PageBreakInRecord ==
    [][ AtText(BodyTypes) =>
          /\ \A s \in LoopCloses' :
               /\ s + 2 <= Len(log')
               /\ log'[s + 1].op = "header"
               /\ log'[s + 2].op = "dots" /\ log'[s + 2].page = log'[s].page + 1
               /\ log'[s + 2].open
               /\ \A k \in Calls("text")' \cup Marks' :
                    (k < s) <=> (log'[k].page <= log'[s].page)
          /\ \A m \in Marks' :
               /\ \E k \in Calls("text")' :
                    /\ k < m
                    /\ log'[k].page = log'[m].page
                    /\ log'[k].x = log'[m].x /\ log'[k].y = log'[m].y
                    /\ log'[k].arg = log'[m].arg
               /\ \A n \in Marks' :
                    (log'[n].page = log'[m].page /\ log'[n].x = log'[m].x
                       /\ log'[n].y = log'[m].y) => n = m
          /\ (CurrentChange.type # "CONTEXT" /\ ~isspace(CurrentChange.content[1]))
               => Cardinality(Marks') = Cardinality(Calls("text")') ]_vars

\* an Inserted record has been drawn over a page break, with underlines on
\* the page it began on and on the page it ended on
C23_Witness ==
    /\ TextDrawn
    /\ DrawnChange.type = "INSERTED"
    /\ LoopCloses # {}
    /\ \E m, n \in Calls("underline") : log[m].page + 1 = log[n].page

(***************************************************************************)
(* getContainingFunction on its own: one call, for a file of at most       *)
(* MaxSrcLines lines and a line number up to two past its end.             *)
(***************************************************************************)
MaxSrcLines == 3

SourceFiles == [lines : SeqsUpTo(LineKinds, MaxSrcLines), nl : BOOLEAN]

FuncInit ==
    /\ dir1 = <<"a">> /\ dir2 = <<"b">> /\ o = <<>> /\ i = 0
    /\ changeset = [k \in {} |-> <<>>] /\ bound = {}
    /\ fname = <<>> /\ fname1 = <<>> /\ fname2 = <<>>
    /\ lineNum1 = 0 /\ lineNum2 = 0 /\ pc = "returned"
    /\ pageHeight = 36
    /\ ignoreBlankLines = "yes"
    /\ showContainingFunction = TRUE
    /\ changesToIgnoreByFilename = [k \in {} |-> {}]
    /\ MainInit("idle")
    /\ gcfData \in SourceFiles
    /\ gcfLine \in 0..(MaxSrcLines + 2)
    /\ gcfLabel = <<>>
    /\ gcfPc = "call"

CallContainingFunction ==
    /\ gcfPc = "call"
    /\ gcfLabel' = ContainingFunction(gcfData, gcfLine)
    /\ gcfPc' = "done"
    /\ UNCHANGED <<gcfData, gcfLine>>
    /\ UNCHANGED <<pvars, cfgvars, lvars>>

FuncNext == CallContainingFunction

FuncSpec == FuncInit /\ [][FuncNext]_vars

\* the lines at whose start the patterns are tried for the line number t
ScannedLines(data, t) ==
    IF data.lines = <<>> THEN {}
    ELSE IF t <= 1 THEN {1}
    ELSE { n \in 1..Len(data.lines) : n < t }

\* the class name the pattern matched last on the scanned lines, "" for none
LastClass(data, t) ==
    LET hits == { n \in ScannedLines(data, t) : ClassAt(data, n) # "" }
    IN IF hits = {} THEN "" ELSE ClassAt(data, Max(hits))

\* the function name matched last on the scanned lines, keywords left out
LastFunc(data, t) ==
    LET hits == { n \in ScannedLines(data, t) :
                    FuncAt(data, n) \notin {"", "if", "while", "for", "foreach", "switch"} }
    IN IF hits = {} THEN "" ELSE FuncAt(data, Max(hits))

\* C24: the label returned is 'class X , function Y', 'class X',
\* 'function Y' or none, made of the last match of each pattern on the
\* scanned lines: none exactly when neither pattern matched.
C24_LabelIsLastMatch ==
    gcfPc = "done" =>
      LET k == LastClass(gcfData, gcfLine)
          f == LastFunc(gcfData, gcfLine)
      IN gcfLabel = IF k # "" /\ f # "" THEN <<"class", k, ",", "function", f>>
                    ELSE IF k # "" THEN <<"class", k>>
                    ELSE IF f # "" THEN <<"function", f>>
                    ELSE <<>>

(***************************************************************************)
(* Properties of the loop over the files.                                  *)
(***************************************************************************)
\* a comes before b in lexicographic order of the characters' code points
LexLess(a, b) ==
    \E k \in 1..(Len(a) + 1) :
        /\ k <= Len(b)
        /\ \A j \in 1..(k - 1) : a[j] = b[j]
        /\ (k = Len(a) + 1 \/ Code(a[k]) < Code(b[k]))

\* the base name of the key matches the ignore glob *.o
IsObjectFile(f) == EndsWith(Basename(f), <<".", "o">>)

\* the keys of the changeset before f in lexicographic order
KeysBefore(f) == { g \in DOMAIN changeset : LexLess(g, f) }

\* C25: the loop takes the keys of the changeset in lexicographic order, one
\* per iteration; a file whose base name matches an ignore glob (*.o) is
\* passed with no canvas call and no change of the cursor, the page-open
\* flag, the page counters or the pages shown; every other file gets its
\* banner, with its own base name.
C25_FilesInOrderIgnoredSkipped ==
    [][ (lpc = "file" /\ fileI < Cardinality(DOMAIN changeset)) =>
          \E f \in DOMAIN changeset :
            /\ Cardinality(KeysBefore(f)) = fileI
            /\ IF IsObjectFile(f)
               THEN /\ log' = <<>>
                    /\ UNCHANGED <<Y, pageIsOpen, pageNum, numPages, pages>>
                    /\ fileI' = fileI + 1 /\ lpc' = "file"
               ELSE /\ Cardinality(Calls("filename")') = 1
                    /\ \A k \in Calls("filename")' : log'[k].arg[1] = Basename(f)
                    /\ fileI' = fileI /\ lpc' = "change" ]_vars

\* an object file has been passed after a file that was drawn, the cursor
\* where that file left it
C25_Witness ==
    /\ lpc = "file" /\ fileI >= 2
    /\ \E f \in DOMAIN changeset : Cardinality(KeysBefore(f)) = fileI - 1 /\ IsObjectFile(f)
    /\ log = <<>>
    /\ pageIsOpen /\ Y < TopY

(***************************************************************************)
(* Properties of the page transitions.                                     *)
(***************************************************************************)
\* the page opens and closes of the last step, in order
Transitions == Headers \cup Calls("showPage")

\* C26: pages are opened and closed in turn: preparePage changes nothing on
\* an open page and endPage nothing on a closed one; the pages opened in a
\* pass (pageNum - 1 of them once it has begun) are the pages shown plus the
\* open one; within a step opens and closes alternate, beginning with a close
\* exactly when the page was open; between the passes and at the save no
\* page is open and the pass has shown at least one page, whatever the
\* changeset; and numPages never decreases.
C26_PagesAlternate ==
    /\ [](/\ pageIsOpen => preparePage(Cursor) = Cursor
          /\ ~pageIsOpen => endPage(Cursor) = Cursor
          /\ lpc \in {"file", "change", "save", "done"}
               => pageNum - 1 = pages + (IF pageIsOpen THEN 1 ELSE 0)
          /\ (lpc \in {"save", "done"} \/ (lpc = "pass" /\ pass = 1))
               => (~pageIsOpen /\ pages >= 1))
    /\ [][ /\ numPages' >= numPages
           /\ \A k \in Transitions' :
                LET before == { j \in Transitions' : j < k }
                    wasOpen == IF before = {} THEN pageIsOpen
                               ELSE log'[Max(before)].op = "header"
                IN /\ log'[k].op = (IF wasOpen THEN "showPage" ELSE "header")
                   /\ log'[k].open = wasOpen
           /\ pageIsOpen' = IF Transitions' = {} THEN pageIsOpen
                            ELSE log'[Max(Transitions')].op = "header" ]_vars

\* both passes over an empty changeset are done: one page shown, none open
C26_Witness ==
    /\ lpc = "save"
    /\ DOMAIN changeset = {}
    /\ pc = "returned"
    /\ pages = 1 /\ ~pageIsOpen

\* the canvas calls that draw content at the cursor
ContentOps ==
    {"number", "dots", "rect", "text", "strike", "underline", "arrow", "label",
     "rule", "filename", "separator"}

\* C27: every content draw is made on an open page, at a y that is not below
\* the bottom content margin and not above the cursor of a fresh page; so a
\* chunk separator asked for with the cursor below the margin is drawn at
\* the cursor of the new page.
C27_DrawsInsideContent ==
    \A k \in DOMAIN log :
      log[k].op \in ContentOps =>
        /\ log[k].open
        /\ log[k].y >= contentMarginBottom
        /\ log[k].y <= TopY

\* the x where the text of the record just drawn begins: the right end of
\* the gutter of its line number
TextStart ==
    LET g == CHOOSE k \in Calls("number") : TRUE
    IN leftMargin + log[g].arg[2] * charWidth(" ")

\* C28: every physical line of the text of a record begins at the right end
\* of the line-number gutter, the first line, the wrapped lines and the line
\* after a page break inside the record alike: the leftmost character of
\* every line is at that x.
C28_LinesStartAfterGutter ==
    TextDrawn =>
      \A k \in Calls("text") :
        LET line == { j \in Calls("text") :
                        log[j].page = log[k].page /\ log[j].y = log[k].y }
        IN \E j \in line : log[j].x = TextStart /\ \A m \in line : log[m].x >= TextStart

\* C29: a line number printed in the gutter has at most numLineNumberDigits
\* decimal digits, so that the gutter has the width of the column for every
\* record of a hunk and of an added file.
C29_NumberFitsColumn ==
    \A k \in Calls("number") :
      /\ NumDigits(log[k].arg[1]) <= numLineNumberDigits
      /\ log[k].arg[2] = numLineNumberDigits + 1

====
